---- MODULE Spec2Model ----
(***************************************************************************)
(* Model of the card tracker (card-tracker.js): Hand, GameState and the    *)
(* CardTracker event handlers, constraint setters and bookkeeping.         *)
(*                                                                         *)
(* Probabilities are exact rationals <<numerator, denominator>> in lowest  *)
(* terms (the source uses IEEE doubles; rounding is not modelled).         *)
(* A card set ({resource: amount}) is the sequence of its entries in       *)
(* Object.entries order; a productions/gifts/takenFrom map is the sequence *)
(* of its <<playerId, value>> entries in ascending id order.               *)
(***************************************************************************)
EXTENDS Integers, Sequences, FiniteSets, TLC

\* ------------------------------------------------------------------ bounds
\* Largest number of calls (handlers, setters, nextTurn) in one behaviour.
MaxEvents == 4
\* The small world cap used by the capped configuration.
SmallCap == 2
\* Largest number of calls in a behaviour that records the event log and
\* the call history.
MaxLogged == 3

\* ------------------------------------------------------- program constants
RESOURCES == <<"wood", "brick", "sheep", "wheat", "ore">>
COMMODITIES == <<"cloth", "coin", "paper">>
ALL_CARD_TYPES == RESOURCES \o COMMODITIES
\* 1-based position of a card type in a Hand's cards array.
ALL_CARD_INDEX ==
  [wood |-> 1, brick |-> 2, sheep |-> 3, wheat |-> 4, ore |-> 5,
   cloth |-> 6, coin |-> 7, paper |-> 8]
TOTAL_PER_RESOURCE == 19
TOTAL_PER_COMMODITY == 12
DefaultMaxWorlds == 1000

BUILDING_COSTS ==
  [road |-> << <<"wood", 1>>, <<"brick", 1>>, <<"sheep", 0>>, <<"wheat", 0>>, <<"ore", 0>> >>,
   settlement |-> << <<"wood", 1>>, <<"brick", 1>>, <<"sheep", 1>>, <<"wheat", 1>>, <<"ore", 0>> >>,
   city |-> << <<"wood", 0>>, <<"brick", 0>>, <<"sheep", 0>>, <<"wheat", 2>>, <<"ore", 3>> >>,
   devCard |-> << <<"wood", 0>>, <<"brick", 0>>, <<"sheep", 1>>, <<"wheat", 1>>, <<"ore", 1>> >>,
   cityWall |-> << <<"brick", 2>> >>,
   knight |-> << <<"sheep", 1>>, <<"ore", 1>> >>,
   strongKnight |-> << <<"sheep", 1>>, <<"ore", 1>> >>,
   mightyKnight |-> << <<"sheep", 1>>, <<"ore", 1>> >>]

\* --------------------------------------------------------------- rationals
RECURSIVE GCD(_, _)
GCD(a, b) == IF b = 0 THEN a ELSE GCD(b, a % b)

Rat(n, d) == IF n = 0 THEN <<0, 1>> ELSE LET g == GCD(n, d) IN <<n \div g, d \div g>>
Zero == <<0, 1>>
One == <<1, 1>>
RAdd(x, y) == Rat(x[1] * y[2] + y[1] * x[2], x[2] * y[2])
RMul(x, y) == Rat(x[1] * y[1], x[2] * y[2])
RDiv(x, y) == Rat(x[1] * y[2], x[2] * y[1])
RScale(k, x) == Rat(k * x[1], x[2])
RLess(x, y) == x[1] * y[2] < y[1] * x[2]
RGeq(x, y) == ~RLess(x, y)
DefaultPruneThreshold == <<1, 10000>>

\* -------------------------------------------------------------------- Hand
\* An array of n copies of x.
RECURSIVE Fill(_, _)
Fill(n, x) == IF n = 0 THEN <<>> ELSE Append(Fill(n - 1, x), x)

\* new Hand(null, isCK): new Array(size).fill(0)
NewHand(isCK) == Fill(IF isCK THEN 8 ELSE 5, 0)

HandGet(hand, cardType) ==
  LET idx == ALL_CARD_INDEX[cardType]
  IN IF idx > Len(hand) THEN 0 ELSE hand[idx]

RECURSIVE SumSeq(_)
SumSeq(s) == IF s = <<>> THEN 0 ELSE Head(s) + SumSeq(Tail(s))

HandTotal(hand) == SumSeq(hand)

HandAdd(hand, cardType, amount) ==
  LET idx == ALL_CARD_INDEX[cardType]
  IN IF idx <= Len(hand) THEN [hand EXCEPT ![idx] = @ + amount] ELSE hand

\* Variant of HandSubtract that returns the hand as it is.
HandSubtractKeeps(hand, cardType, amount) == hand

HandSubtract(hand, cardType, amount) == HandAdd(hand, cardType, 0 - amount)

HandIsValid(hand) == \A i \in 1..Len(hand) : hand[i] >= 0

\* ------------------------------------------------------------- card sets
\* Folding a {resource: amount} object over a hand, entry by entry.
RECURSIVE AddAll(_, _)
AddAll(hand, cards) ==
  IF cards = <<>> THEN hand
  ELSE AddAll(HandAdd(hand, Head(cards)[1], Head(cards)[2]), Tail(cards))

RECURSIVE SubtractAll(_, _)
SubtractAll(hand, cards) ==
  IF cards = <<>> THEN hand
  ELSE SubtractAll(HandSubtract(hand, Head(cards)[1], Head(cards)[2]), Tail(cards))

\* Every entry is covered by the hand as it stands (no subtraction between checks).
CanPay(hand, cards) ==
  \A k \in 1..Len(cards) : HandGet(hand, cards[k][1]) >= cards[k][2]

\* Check-then-subtract entry by entry, stopping at the first shortfall:
\* <<ok, hand after the entries taken so far>>.
RECURSIVE TakeEach(_, _)
TakeEach(hand, cards) ==
  IF cards = <<>> THEN <<TRUE, hand>>
  ELSE IF HandGet(hand, Head(cards)[1]) < Head(cards)[2] THEN <<FALSE, hand>>
  ELSE TakeEach(HandSubtract(hand, Head(cards)[1], Head(cards)[2]), Tail(cards))

\* Object.values(cards).reduce((a, b) => a + b, 0)
RECURSIVE SumAmounts(_)
SumAmounts(cards) ==
  IF cards = <<>> THEN 0 ELSE Head(cards)[2] + SumAmounts(Tail(cards))

\* --------------------------------------------------------------- GameState
\* The slot worlds[0] of an empty array.
Undefined == [undefined |-> TRUE]
IsUndefined(w) == "undefined" \in DOMAIN w

NewGameState(playerCount, isCK) ==
  [hands |-> Fill(playerCount, NewHand(isCK)), probability |-> One]

GetTotalCardType(world, cardType) ==
  SumSeq([i \in 1..Len(world.hands) |-> HandGet(world.hands[i], cardType)])

\* constraints = {cardCounts, bank}; bank is Null or a map over card types.
Null == [null |-> TRUE]
IsNull(b) == "null" \in DOMAIN b

GameStateIsValid(world, counts, bnk) ==
  /\ \A p \in 1..Len(world.hands) :
       /\ HandIsValid(world.hands[p])
       /\ (p \in DOMAIN counts => HandTotal(world.hands[p]) = counts[p])
  /\ (~IsNull(bnk) =>
        \A k \in 1..Len(RESOURCES) :
          GetTotalCardType(world, RESOURCES[k]) + bnk[RESOURCES[k]] = TOTAL_PER_RESOURCE)

\* world.hash(): "i:cards" for i = 1..playerCount, in player order; the
\* probability is not part of the key.
Hash(world) == [i \in 1..Len(world.hands) |-> <<i, world.hands[i]>>]

\* ------------------------------------------------------ tracker: helpers
RECURSIVE SumProb(_)
SumProb(ws) ==
  IF ws = <<>> THEN Zero ELSE RAdd(Head(ws).probability, SumProb(Tail(ws)))

HasUndefined(ws) == \E i \in 1..Len(ws) : IsUndefined(ws[i])

\* Hand.toObject(): the resources by name, and the commodities of a C&K hand.
ToObject(hand) ==
  LET names == IF Len(hand) = 8 THEN ALL_CARD_TYPES ELSE RESOURCES
  IN [name \in {names[k] : k \in 1..Len(names)} |-> hand[ALL_CARD_INDEX[name]]]

\* The loop of getMostLikelyHand: bestWorld is replaced only by a world of
\* strictly higher probability.
RECURSIVE BestFrom(_, _)
BestFrom(bestWorld, ws) ==
  IF ws = <<>> THEN bestWorld
  ELSE BestFrom(IF RLess(bestWorld.probability, Head(ws).probability)
                THEN Head(ws) ELSE bestWorld,
                Tail(ws))

\* The same loop with >= in place of >.
RECURSIVE BestFromLast(_, _)
BestFromLast(bestWorld, ws) ==
  IF ws = <<>> THEN bestWorld
  ELSE BestFromLast(IF RGeq(Head(ws).probability, bestWorld.probability)
                    THEN Head(ws) ELSE bestWorld,
                    Tail(ws))

\* Variant of BestWorld that prefers the last of several equally likely worlds.
BestWorldLast(ws) == BestFromLast(ws[1], ws)

\* let bestWorld = this.worlds[0]; for (const world of this.worlds) ...
BestWorld(ws) == BestFrom(ws[1], ws)

\* What getMostLikelyHand(playerId) returns; Undefined when it throws.
GetMostLikelyHand(ws, playerId) ==
  IF ws = <<>> \/ HasUndefined(ws) THEN Undefined
  ELSE ToObject(BestWorld(ws).hands[playerId])

\* getMarginals, before the first world: expectedValue = 0, min = Infinity,
\* max = -Infinity (seen = FALSE), distribution = new Map().
NoTally == [expected |-> Zero, seen |-> FALSE, min |-> 0, max |-> 0, distribution |-> <<>>]

\* Variant of Tally that stores the probability of the latest world under
\* the count instead of adding it.
TallyOverwrite(acc, count, probability) ==
  [expected |-> RAdd(acc.expected, RScale(count, probability)),
   seen |-> TRUE,
   min |-> IF acc.seen /\ acc.min < count THEN acc.min ELSE count,
   max |-> IF acc.seen /\ acc.max > count THEN acc.max ELSE count,
   distribution |->
     [n \in (DOMAIN acc.distribution) \cup {count} |->
        IF n = count THEN probability ELSE acc.distribution[n]]]

\* getMarginals, one pass of the loop over the worlds for one count.
Tally(acc, count, probability) ==
  [expected |-> RAdd(acc.expected, RScale(count, probability)),
   seen |-> TRUE,
   min |-> IF acc.seen /\ acc.min < count THEN acc.min ELSE count,
   max |-> IF acc.seen /\ acc.max > count THEN acc.max ELSE count,
   distribution |->
     [n \in (DOMAIN acc.distribution) \cup {count} |->
        IF n = count
        THEN RAdd(IF n \in DOMAIN acc.distribution THEN acc.distribution[n] ELSE Zero,
                  probability)
        ELSE acc.distribution[n]]]

\* The loop over this.worlds from world i on; items[i] = <<count, probability>>.
RECURSIVE TallyFrom(_, _, _)
TallyFrom(acc, items, i) ==
  IF i > Len(items) THEN acc
  ELSE TallyFrom(Tally(acc, items[i][1], items[i][2]), items, i + 1)

\* One loop over this.worlds; items[i] = <<count in world i, its probability>>.
TallyAll(items) == TallyFrom(NoTally, items, 1)

\* hand.totalResources() and hand.totalCommodities()
HandTotalResources(hand) == SumSeq(SubSeq(hand, 1, 5))
HandTotalCommodities(hand) == IF Len(hand) = 8 THEN SumSeq(SubSeq(hand, 6, Len(hand))) ELSE 0

\* What getMarginals(playerId) returns; Undefined when it throws.
GetMarginals(ws, playerId, ck) ==
  IF HasUndefined(ws) THEN Undefined
  ELSE LET cardTypes == IF ck THEN ALL_CARD_TYPES ELSE RESOURCES
           Measured(Count(_)) ==
             [i \in 1..Len(ws) |-> <<Count(ws[i].hands[playerId]), ws[i].probability>>]
           PerType(cardType) ==
             LET t == TallyAll(Measured(LAMBDA hand : HandGet(hand, cardType)))
             IN [expected |-> t.expected, min |-> t.min, max |-> t.max,
                 distribution |-> t.distribution]
           tot == TallyAll(Measured(HandTotal))
           res == TallyAll(Measured(HandTotalResources))
           com == TallyAll(Measured(HandTotalCommodities))
       IN [types |-> [cardType \in {cardTypes[k] : k \in 1..Len(cardTypes)} |-> PerType(cardType)],
           total |-> [expected |-> tot.expected, min |-> tot.min, max |-> tot.max],
           totalResources |-> IF ck THEN [expected |-> res.expected] ELSE Undefined,
           totalCommodities |-> IF ck THEN [expected |-> com.expected] ELSE Undefined]

\* _renormalize on an array of proper worlds.
Renormalize(ws) ==
  LET total == SumProb(ws)
  IN IF RLess(Zero, total)
     THEN [i \in 1..Len(ws) |-> [ws[i] EXCEPT !.probability = RDiv(@, total)]]
     ELSE ws

\* The worlds a filtering handler pushed to validWorlds; res[i] is
\* <<pushed, world i as the handler left it>>.
RECURSIVE KeepOk(_)
KeepOk(res) ==
  IF res = <<>> THEN <<>>
  ELSE IF Head(res)[1] THEN <<Head(res)[2]>> \o KeepOk(Tail(res))
  ELSE KeepOk(Tail(res))

\* Variant of ValidOrFirst without the fallback to worlds[0].
ValidOnly(res) == KeepOk(res)

\* Variant of ValidOrFirst that falls back to the last world of the array.
ValidOrLast(res) ==
  LET valid == KeepOk(res)
  IN IF Len(valid) > 0 THEN valid
     ELSE << IF res = <<>> THEN Undefined ELSE res[Len(res)][2] >>

\* validWorlds.length > 0 ? validWorlds : [this.worlds[0]]
ValidOrFirst(res) ==
  LET valid == KeepOk(res)
  IN IF Len(valid) > 0 THEN valid
     ELSE << IF res = <<>> THEN Undefined ELSE res[1][2] >>

\* this.cardCounts[p] || 0
CountOrZero(counts, p) == IF p \in DOMAIN counts THEN counts[p] ELSE 0

SetCount(counts, p, v) ==
  [q \in (DOMAIN counts) \cup {p} |-> IF q = p THEN v ELSE counts[q]]

\* this.bank[resource] += sign * amount for every entry (bank visible).
RECURSIVE BankApply(_, _, _)
BankApply(bnk, cards, sign) ==
  IF cards = <<>> THEN bnk
  ELSE BankApply([bnk EXCEPT ![Head(cards)[1]] = @ + sign * Head(cards)[2]],
                 Tail(cards), sign)

BankUpdate(bnk, cards, sign) == IF IsNull(bnk) THEN bnk ELSE BankApply(bnk, cards, sign)

\* _updateCardCounts(productions)
RECURSIVE UpdateCardCounts(_, _)
UpdateCardCounts(counts, productions) ==
  IF productions = <<>> THEN counts
  ELSE LET pid == Head(productions)[1]
           added == SumAmounts(Head(productions)[2])
       IN UpdateCardCounts(SetCount(counts, pid, CountOrZero(counts, pid) + added),
                           Tail(productions))

\* ------------------------------------------------- _mergeAndPrune pieces
\* Merge identical worlds: the first world with a hash absorbs the
\* probability of the later ones and keeps its position.
RECURSIVE MergeInto(_, _)
MergeInto(acc, ws) ==
  IF ws = <<>> THEN acc
  ELSE LET w == Head(ws)
           hit == {i \in 1..Len(acc) : Hash(acc[i]) = Hash(w)}
       IN IF hit # {}
          THEN LET i == CHOOSE j \in hit : TRUE
               IN MergeInto([acc EXCEPT ![i].probability = RAdd(@, w.probability)], Tail(ws))
          ELSE MergeInto(Append(acc, w), Tail(ws))

\* Variant of Merge that leaves worlds of equal hash apart.
MergeNone(ws) == ws

Merge(ws) == MergeInto(<<>>, ws)

\* Variant of Prune that drops nothing.
PruneNone(ws, threshold) == ws

\* Array.prototype.filter(w => w.probability >= pruneThreshold)
Prune(ws, threshold) == SelectSeq(ws, LAMBDA w : RGeq(w.probability, threshold))

\* Stable sort by descending probability (Array.prototype.sort is stable).
RECURSIVE InsertDesc(_, _)
InsertDesc(sorted, w) ==
  IF sorted = <<>> THEN <<w>>
  ELSE IF RLess(Head(sorted).probability, w.probability) THEN <<w>> \o sorted
  ELSE <<Head(sorted)>> \o InsertDesc(Tail(sorted), w)

RECURSIVE SortDesc(_, _)
SortDesc(acc, ws) ==
  IF ws = <<>> THEN acc ELSE SortDesc(InsertDesc(acc, Head(ws)), Tail(ws))

\* Variant of Cap that never cuts the array.
CapNone(ws, maxW) == ws

\* If too many worlds, keep top N by probability.
Cap(ws, maxW) ==
  IF Len(ws) > maxW THEN SubSeq(SortDesc(<<>>, ws), 1, maxW) ELSE ws

\* Variant of MergeAndPrune that cuts to the cap first and prunes what is
\* left after renormalizing it.
MergeAndPruneCapFirst(ws, maxW, threshold) ==
  Renormalize(Prune(Renormalize(Cap(Renormalize(Merge(ws)), maxW)), threshold))

MergeAndPrune(ws, maxW, threshold) ==
  Renormalize(Cap(Prune(Renormalize(Merge(ws)), threshold), maxW))

\* ------------------------------------------------ handlers, per world
\* Each operator gives <<pushed to validWorlds, the world as the loop body
\* left it>>; the handlers mutate world.hands in place, so the second
\* component is what this.worlds[0] holds if the fallback keeps it.
SetHand(world, player, hand) == [world EXCEPT !.hands[player] = hand]

\* processProduction, loop body: every named player gets their cards.
RECURSIVE ProduceWorld(_, _)
ProduceWorld(world, productions) ==
  IF productions = <<>> THEN world
  ELSE LET pid == Head(productions)[1]
       IN ProduceWorld(SetHand(world, pid, AddAll(world.hands[pid], Head(productions)[2])),
                       Tail(productions))

\* processBuild, loop body.
BuildWorld(world, playerId, cost) ==
  LET hand == world.hands[playerId]
  IN IF CanPay(hand, cost)
     THEN <<TRUE, SetHand(world, playerId, SubtractAll(hand, cost))>>
     ELSE <<FALSE, world>>

\* processBankTrade, loop body.
BankTradeWorld(world, playerId, give, receive) ==
  LET taken == TakeEach(world.hands[playerId], give)
  IN IF taken[1]
     THEN <<TRUE, SetHand(world, playerId, AddAll(taken[2], receive))>>
     ELSE <<FALSE, world>>

\* Variant of PlayerTradeWorld that debits player1 before checking player2.
PlayerTradeWorldEager(world, player1, give1, player2, give2) ==
  LET hand1 == world.hands[player1]
      hand2 == world.hands[player2]
  IN IF ~CanPay(hand1, give1) THEN <<FALSE, world>>
     ELSE IF ~CanPay(hand2, give2)
          THEN <<FALSE, SetHand(world, player1, SubtractAll(hand1, give1))>>
     ELSE LET new1 == AddAll(SubtractAll(hand1, give1), give2)
              new2 == SubtractAll(AddAll(hand2, give1), give2)
          IN <<TRUE, SetHand(SetHand(world, player1, new1), player2, new2)>>

\* processPlayerTrade, loop body: both sides checked, then both applied.
PlayerTradeWorld(world, player1, give1, player2, give2) ==
  LET hand1 == world.hands[player1]
      hand2 == world.hands[player2]
  IN IF CanPay(hand1, give1) /\ CanPay(hand2, give2)
     THEN LET new1 == AddAll(SubtractAll(hand1, give1), give2)
              new2 == SubtractAll(AddAll(hand2, give1), give2)
          IN <<TRUE, SetHand(SetHand(world, player1, new1), player2, new2)>>
     ELSE <<FALSE, world>>

\* Variant of StealBranches that weighs every held type 1/total.
RECURSIVE StealBranchesUnweighted(_, _, _, _)
StealBranchesUnweighted(world, thief, victim, cardTypes) ==
  IF cardTypes = <<>> THEN <<>>
  ELSE LET cardType == Head(cardTypes)
           victimHand == world.hands[victim]
           count == HandGet(victimHand, cardType)
           rest == StealBranchesUnweighted(world, thief, victim, Tail(cardTypes))
       IN IF count = 0 THEN rest
          ELSE LET stealProb == Rat(1, HandTotal(victimHand))
                   newVictimHand == HandSubtract(victimHand, cardType, 1)
                   newThiefHand == HandAdd(world.hands[thief], cardType, 1)
                   newWorld ==
                     [hands |-> [[world.hands EXCEPT ![victim] = newVictimHand]
                                   EXCEPT ![thief] = newThiefHand],
                      probability |-> RMul(world.probability, stealProb)]
               IN <<newWorld>> \o rest

\* processSteal, loop body: the worlds pushed to newWorlds for one parent.
RECURSIVE StealBranches(_, _, _, _)
StealBranches(world, thief, victim, cardTypes) ==
  IF cardTypes = <<>> THEN <<>>
  ELSE LET cardType == Head(cardTypes)
           victimHand == world.hands[victim]
           count == HandGet(victimHand, cardType)
           rest == StealBranches(world, thief, victim, Tail(cardTypes))
       IN IF count = 0 THEN rest
          ELSE LET stealProb == Rat(count, HandTotal(victimHand))
                   newVictimHand == HandSubtract(victimHand, cardType, 1)
                   newThiefHand == HandAdd(world.hands[thief], cardType, 1)
                   newWorld ==
                     [hands |-> [[world.hands EXCEPT ![victim] = newVictimHand]
                                   EXCEPT ![thief] = newThiefHand],
                      probability |-> RMul(world.probability, stealProb)]
               IN <<newWorld>> \o rest

\* Variant of StealWorld that also keeps the parent next to its children.
StealWorldKeepParent(world, thief, victim, cardTypes) ==
  IF HandTotal(world.hands[victim]) = 0 THEN <<world>>
  ELSE <<world>> \o StealBranches(world, thief, victim, cardTypes)

StealWorld(world, thief, victim, cardTypes) ==
  IF HandTotal(world.hands[victim]) = 0 THEN <<world>>
  ELSE StealBranches(world, thief, victim, cardTypes)

RECURSIVE StealAll(_, _, _, _)
StealAll(ws, thief, victim, cardTypes) ==
  IF ws = <<>> THEN <<>>
  ELSE StealWorld(Head(ws), thief, victim, cardTypes)
         \o StealAll(Tail(ws), thief, victim, cardTypes)

\* Variant of SpyWorld that keeps the worlds whose victim lacks the card.
SpyWorldKeepsAll(world, thief, victim, stolenCard) ==
  LET victimHand == world.hands[victim]
  IN IF HandGet(victimHand, stolenCard) < 1 THEN <<TRUE, world>>
     ELSE LET newVictimHand == HandSubtract(victimHand, stolenCard, 1)
              newThiefHand == HandAdd(world.hands[thief], stolenCard, 1)
          IN <<TRUE, SetHand(SetHand(world, victim, newVictimHand), thief, newThiefHand)>>

\* processSpy with a known card, loop body.
SpyWorld(world, thief, victim, stolenCard) ==
  LET victimHand == world.hands[victim]
  IN IF HandGet(victimHand, stolenCard) < 1 THEN <<FALSE, world>>
     ELSE LET newVictimHand == HandSubtract(victimHand, stolenCard, 1)
              newThiefHand == HandAdd(world.hands[thief], stolenCard, 1)
          IN <<TRUE, SetHand(SetHand(world, victim, newVictimHand), thief, newThiefHand)>>

\* processWedding, inner loops: st = [ok, world, receiverHand]. A giver's
\* hand is stored only after all of the giver's cards were taken.
RECURSIVE WeddingGive(_, _, _)
WeddingGive(giverHand, receiverHand, giftCards) ==
  IF giftCards = <<>> THEN <<TRUE, giverHand, receiverHand>>
  ELSE IF HandGet(giverHand, Head(giftCards)[1]) < Head(giftCards)[2]
       THEN <<FALSE, giverHand, receiverHand>>
  ELSE WeddingGive(HandSubtract(giverHand, Head(giftCards)[1], Head(giftCards)[2]),
                   HandAdd(receiverHand, Head(giftCards)[1], Head(giftCards)[2]),
                   Tail(giftCards))

RECURSIVE WeddingGivers(_, _, _)
WeddingGivers(world, receiverHand, gifts) ==
  IF gifts = <<>> THEN <<TRUE, world, receiverHand>>
  ELSE LET gid == Head(gifts)[1]
           r == WeddingGive(world.hands[gid], receiverHand, Head(gifts)[2])
       IN IF ~r[1] THEN <<FALSE, world, r[3]>>
          ELSE WeddingGivers(SetHand(world, gid, r[2]), r[3], Tail(gifts))

WeddingWorld(world, receiver, gifts) ==
  LET r == WeddingGivers(world, world.hands[receiver], gifts)
  IN IF r[1] THEN <<TRUE, SetHand(r[2], receiver, r[3])>> ELSE <<FALSE, r[2]>>

\* processDiscard, loop body.
DiscardWorld(world, playerId, discarded) ==
  LET taken == TakeEach(world.hands[playerId], discarded)
  IN IF taken[1] THEN <<TRUE, SetHand(world, playerId, taken[2])>> ELSE <<FALSE, world>>

\* Variant of MonopolyVictims that debits without checking the holding.
RECURSIVE MonopolyVictimsUnchecked(_, _, _, _)
MonopolyVictimsUnchecked(world, thiefHand, resource, takenFrom) ==
  IF takenFrom = <<>> THEN <<TRUE, world, thiefHand>>
  ELSE LET vid == Head(takenFrom)[1]
           amount == Head(takenFrom)[2]
           victimHand == world.hands[vid]
       IN MonopolyVictimsUnchecked(
            SetHand(world, vid, HandSubtract(victimHand, resource, amount)),
            HandAdd(thiefHand, resource, amount), resource, Tail(takenFrom))

\* processMonopoly, inner loop: each victim's hand is stored as soon as it
\* is debited; the collector's hand is stored only if every victim paid.
RECURSIVE MonopolyVictims(_, _, _, _)
MonopolyVictims(world, thiefHand, resource, takenFrom) ==
  IF takenFrom = <<>> THEN <<TRUE, world, thiefHand>>
  ELSE LET vid == Head(takenFrom)[1]
           amount == Head(takenFrom)[2]
           victimHand == world.hands[vid]
       IN IF HandGet(victimHand, resource) < amount THEN <<FALSE, world, thiefHand>>
          ELSE MonopolyVictims(SetHand(world, vid, HandSubtract(victimHand, resource, amount)),
                               HandAdd(thiefHand, resource, amount), resource, Tail(takenFrom))

MonopolyWorld(world, playerId, resource, takenFrom) ==
  LET r == MonopolyVictims(world, world.hands[playerId], resource, takenFrom)
  IN IF r[1] THEN <<TRUE, SetHand(r[2], playerId, r[3])>> ELSE <<FALSE, r[2]>>

\* processYearOfPlenty, loop body.
YearOfPlentyWorld(world, playerId, resources) ==
  SetHand(world, playerId, AddAll(world.hands[playerId], resources))

\* ----------------------------------------------------------- tracker state
VARIABLES
  worlds,          \* this.worlds: array of GameState (or <<Undefined>>)
  bank,            \* this.bank: Null or {cardType: count}
  cardCounts,      \* this.cardCounts: playerId -> known card count
  turnNumber,      \* this.turnNumber
  playerCount,     \* this.playerCount
  maxWorlds,       \* this.maxWorlds
  pruneThreshold,  \* this.pruneThreshold
  isCK,            \* this.isCK
  raised,          \* the last call threw
  last,            \* the last call: [op, args]
  prev,            \* this.worlds as it was before the last call
  calls,           \* number of calls made so far
  mostLikely,      \* what the last call returned if it was getMostLikelyHand
  marginals,       \* what the last call returned if it was getMarginals
  eventLog,        \* this.eventLog (recorded when logging)
  history,         \* the calls made so far, in order (recorded when logging)
  logging          \* the behaviour records eventLog and history

vars == <<worlds, bank, cardCounts, turnNumber, playerCount, maxWorlds,
          pruneThreshold, isCK, raised, last, prev, calls, mostLikely, marginals, eventLog, history,
          logging>>

params == <<playerCount, maxWorlds, pruneThreshold, isCK, logging>>

\* ------------------------------------------------------------------ inputs
\* Construction parameters: new CardTracker(playerCount, options).
HighThreshold == <<3, 5>>
Options ==
  { [maxWorlds |-> DefaultMaxWorlds, pruneThreshold |-> DefaultPruneThreshold, isCK |-> FALSE],
    [maxWorlds |-> SmallCap, pruneThreshold |-> DefaultPruneThreshold, isCK |-> FALSE],
    [maxWorlds |-> DefaultMaxWorlds, pruneThreshold |-> HighThreshold, isCK |-> FALSE],
    [maxWorlds |-> DefaultMaxWorlds, pruneThreshold |-> DefaultPruneThreshold, isCK |-> TRUE] }
\* A tracker with both a small world cap and a noticeable prune threshold.
MidThreshold == <<3, 10>>
CappedOption == [maxWorlds |-> SmallCap, pruneThreshold |-> MidThreshold, isCK |-> FALSE]
PlayerCounts == {3}

Productions ==
  { << <<1, << <<"wood", 1>>, <<"brick", 1>>, <<"ore", 1>> >> >> >>,
    << <<1, << <<"wood", 1>> >> >>, <<2, << <<"wood", 1>> >> >> >> }
CKProductions ==
  { << <<2, << <<"wood", 1>>, <<"cloth", 1>> >> >> >> }
BuildInputs == { <<1, "road">>, <<2, "road">>, <<1, "castle">> }
BankTradeInputs == { <<1, << <<"wood", 1>> >>, << <<"ore", 1>> >> >> }
PlayerTradeInputs ==
  { <<1, << <<"wood", 1>> >>, 2, << <<"brick", 1>> >> >>,
    <<1, << <<"wood", 1>> >>, 1, << <<"brick", 1>> >> >> }
StealInputs == { <<2, 1>>, <<1, 3>> }
\* stolenCard = null is written NullCard.
NullCard == "null"
SpyInputs == { <<2, 1, "wood">>, <<1, 1, "wood">>, <<3, 1, NullCard>> }
MasterMerchantInputs == { <<2, 1>> }
WeddingInputs ==
  { <<3, << <<1, << <<"wood", 1>> >> >>, <<2, << <<"brick", 1>> >> >> >> >> }
DiscardInputs == { <<1, << <<"brick", 1>> >> >> }
MonopolyInputs == { <<3, "wood", << <<1, 1>>, <<2, 1>> >> >> }
YearOfPlentyInputs == { <<2, << <<"ore", 1>> >> >> }
CardCountInputs == { <<1, 2>> }
FullBank ==
  [wood |-> 19, brick |-> 19, sheep |-> 19, wheat |-> 19, ore |-> 19]
BankInputs == { FullBank, [FullBank EXCEPT !.wood = 17] }
\* Snapshots taken in the extended variant, the second after one wood was
\* handed out.
CKBankInputs == { FullBank, [FullBank EXCEPT !.wood = 18] }
\* In the extended variant the caller's snapshot also lists the commodities.
CKBank(b) == [t \in {"wood", "brick", "sheep", "wheat", "ore", "cloth", "coin", "paper"} |->
                IF t \in DOMAIN b THEN b[t] ELSE 12]

QueryPlayers == {1}

KnownBuilding(buildingType) == buildingType \in DOMAIN BUILDING_COSTS

\* -------------------------------------------------------------------- Init
\* constructor
Constructed ==
  /\ \E o \in Options \cup {CappedOption} :
       /\ maxWorlds = o.maxWorlds
       /\ pruneThreshold = o.pruneThreshold
       /\ isCK = o.isCK
  /\ playerCount \in PlayerCounts
  /\ worlds = <<NewGameState(playerCount, isCK)>>
  /\ bank = Null
  /\ cardCounts = <<>>
  /\ turnNumber = 0
  /\ raised = FALSE
  /\ last = [op |-> "constructor", args |-> <<>>]
  /\ prev = <<>>
  /\ calls = 0
  /\ mostLikely = Undefined
  /\ marginals = Undefined
  /\ eventLog = <<>>
  /\ history = <<>>

\* The event log never feeds back into a handler; behaviours that do not
\* speak of it leave it unrecorded.
Init ==
  /\ Constructed
  /\ logging = FALSE
  /\ [maxWorlds |-> maxWorlds, pruneThreshold |-> pruneThreshold, isCK |-> isCK] \in Options

\* ----------------------------------------------------------------- actions
\* Bookkeeping shared by every call.
Call(op, args) ==
  /\ calls < (IF logging THEN MaxLogged ELSE MaxEvents)
  /\ calls' = calls + 1
  /\ last' = [op |-> op, args |-> args]
  /\ prev' = worlds
  /\ mostLikely' = IF op = "getMostLikelyHand" THEN GetMostLikelyHand(worlds, args[1])
                   ELSE Undefined
  /\ marginals' = IF op = "getMarginals" THEN GetMarginals(worlds, args[1], isCK)
                  ELSE Undefined
  /\ history' = IF logging THEN Append(history, [op |-> op, args |-> args]) ELSE history
  /\ UNCHANGED params

\* this.eventLog.push({type, turn: this.turnNumber, ...data})
Rec(type, data) == [type |-> type, turn |-> turnNumber, data |-> data]

\* Variant of Log that starts the log afresh with the new records.
LogOverwrite(recs) == eventLog' = IF logging THEN recs ELSE eventLog

Log(recs) == eventLog' = IF logging THEN eventLog \o recs ELSE eventLog

\* A TypeError while looping over [undefined]: nothing after the log entry runs.
Throws ==
  /\ raised' = TRUE
  /\ UNCHANGED <<worlds, bank, cardCounts, turnNumber>>

\* The tail of a handler that filters, falls back to worlds[0] and calls
\* _renormalize; res[i] = <<pushed, world i after the loop body>>. On an
\* empty array the fallback stores [undefined] and _renormalize throws
\* before the bank is touched.
FilterAndRenormalize(res, bankAfter) ==
  IF HasUndefined(worlds) THEN Throws
  ELSE LET kept == ValidOrFirst(res)
       IN IF HasUndefined(kept)
          THEN /\ worlds' = kept
               /\ raised' = TRUE
               /\ UNCHANGED <<bank, cardCounts, turnNumber>>
          ELSE /\ worlds' = Renormalize(kept)
               /\ bank' = bankAfter
               /\ raised' = FALSE
               /\ UNCHANGED <<cardCounts, turnNumber>>

RECURSIVE BankProduction(_, _)
BankProduction(bnk, productions) ==
  IF productions = <<>> THEN bnk
  ELSE BankProduction(BankUpdate(bnk, Head(productions)[2], -1), Tail(productions))

processProduction(productions) ==
  /\ Call("production", productions)
  /\ Log(<<Rec("production", productions)>>)
  /\ IF HasUndefined(worlds) THEN Throws
     ELSE /\ worlds' = [i \in 1..Len(worlds) |-> ProduceWorld(worlds[i], productions)]
          /\ bank' = BankProduction(bank, productions)
          /\ cardCounts' = UpdateCardCounts(cardCounts, productions)
          /\ raised' = FALSE
          /\ UNCHANGED turnNumber

\* Variant of BuildResult that does not renormalize the survivors.
BuildResultUnscaled(ws, playerId, cost) ==
  LET res == [i \in 1..Len(ws) |-> BuildWorld(ws[i], playerId, cost)]
      validWorlds == KeepOk(res)
  IN IF Len(validWorlds) = 0
     THEN << IF ws = <<>> THEN Undefined ELSE ws[1] >>
     ELSE validWorlds

\* The worlds processBuild leaves: the survivors renormalized, or the
\* first prior world as it is (no renormalization on that branch).
BuildResult(ws, playerId, cost) ==
  LET res == [i \in 1..Len(ws) |-> BuildWorld(ws[i], playerId, cost)]
      validWorlds == KeepOk(res)
  IN IF Len(validWorlds) = 0
     THEN << IF ws = <<>> THEN Undefined ELSE ws[1] >>
     ELSE Renormalize(validWorlds)

\* Variant of processBuild that records the event before looking up the cost.
processBuildLogsFirst(playerId, buildingType) ==
  /\ Call("build", <<playerId, buildingType>>)
  /\ Log(<<Rec("build", <<playerId, buildingType>>)>>)
  /\ IF ~KnownBuilding(buildingType)
     THEN /\ raised' = TRUE
          /\ UNCHANGED <<worlds, bank, cardCounts, turnNumber>>
     ELSE LET cost == BUILDING_COSTS[buildingType]
          IN IF HasUndefined(worlds) THEN Throws
             ELSE /\ worlds' = BuildResult(worlds, playerId, cost)
                  /\ bank' = BankUpdate(bank, cost, 1)
                  /\ cardCounts' = SetCount(cardCounts, playerId,
                                            CountOrZero(cardCounts, playerId) - SumAmounts(cost))
                  /\ raised' = FALSE
                  /\ UNCHANGED turnNumber

processBuild(playerId, buildingType) ==
  /\ Call("build", <<playerId, buildingType>>)
  /\ IF ~KnownBuilding(buildingType)
     THEN /\ raised' = TRUE
          /\ UNCHANGED <<worlds, bank, cardCounts, turnNumber, eventLog>>
     ELSE LET cost == BUILDING_COSTS[buildingType]
          IN /\ Log(<<Rec("build", <<playerId, buildingType>>)>>)
             /\ IF HasUndefined(worlds) THEN Throws
                ELSE /\ worlds' = BuildResult(worlds, playerId, cost)
                     /\ bank' = BankUpdate(bank, cost, 1)
                     /\ cardCounts' = SetCount(cardCounts, playerId,
                                               CountOrZero(cardCounts, playerId) - SumAmounts(cost))
                     /\ raised' = FALSE
                     /\ UNCHANGED turnNumber

processBankTrade(playerId, give, receive) ==
  /\ Call("bankTrade", <<playerId, give, receive>>)
  /\ Log(<<Rec("bankTrade", <<playerId, give, receive>>)>>)
  /\ FilterAndRenormalize(
       [i \in 1..Len(worlds) |-> BankTradeWorld(worlds[i], playerId, give, receive)],
       BankUpdate(BankUpdate(bank, give, 1), receive, -1))

processPlayerTrade(player1, give1, player2, give2) ==
  /\ Call("playerTrade", <<player1, give1, player2, give2>>)
  /\ Log(<<Rec("playerTrade", <<player1, give1, player2, give2>>)>>)
  /\ FilterAndRenormalize(
       [i \in 1..Len(worlds) |-> PlayerTradeWorld(worlds[i], player1, give1, player2, give2)],
       bank)

\* One processSteal on the array ws: branch every world, then _mergeAndPrune.
StealStep(ws, thief, victim) ==
  MergeAndPrune(StealAll(ws, thief, victim, IF isCK THEN ALL_CARD_TYPES ELSE RESOURCES),
                maxWorlds, pruneThreshold)

StealBody(thief, victim) ==
  IF HasUndefined(worlds) THEN Throws
  ELSE /\ worlds' = StealStep(worlds, thief, victim)
       /\ raised' = FALSE
       /\ UNCHANGED <<bank, cardCounts, turnNumber>>

\* Variant of processSteal that may leave the children in reverse order.
processStealAnyOrder(thief, victim) ==
  /\ Call("steal", <<thief, victim>>)
  /\ Log(<<Rec("steal", <<thief, victim>>)>>)
  /\ IF HasUndefined(worlds) THEN Throws
     ELSE LET ws == StealStep(worlds, thief, victim)
          IN /\ worlds' \in {ws, [i \in 1..Len(ws) |-> ws[Len(ws) + 1 - i]]}
             /\ raised' = FALSE
             /\ UNCHANGED <<bank, cardCounts, turnNumber>>

processSteal(thief, victim) ==
  /\ Call("steal", <<thief, victim>>)
  /\ Log(<<Rec("steal", <<thief, victim>>)>>)
  /\ StealBody(thief, victim)

processSpy(thief, victim, stolenCard) ==
  /\ Call("spy", <<thief, victim, stolenCard>>)
  /\ IF stolenCard # NullCard
     THEN /\ Log(<<Rec("spy", <<thief, victim, stolenCard>>)>>)
          /\ FilterAndRenormalize(
               [i \in 1..Len(worlds) |-> SpyWorld(worlds[i], thief, victim, stolenCard)], bank)
     ELSE /\ Log(<<Rec("steal", <<thief, victim>>)>>)
          /\ StealBody(thief, victim)

\* Variant of processMasterMerchant that branches twice and merges and
\* prunes once, after the second branching.
processMasterMerchantOneMerge(thief, victim) ==
  /\ Call("masterMerchant", <<thief, victim>>)
  /\ IF HasUndefined(worlds)
     THEN /\ Log(<<Rec("masterMerchant", <<thief, victim>>), Rec("steal", <<thief, victim>>)>>)
          /\ Throws
     ELSE /\ Log(<<Rec("masterMerchant", <<thief, victim>>), Rec("steal", <<thief, victim>>),
                   Rec("steal", <<thief, victim>>)>>)
          /\ worlds' = StealStep(StealAll(worlds, thief, victim,
                                          IF isCK THEN ALL_CARD_TYPES ELSE RESOURCES),
                                 thief, victim)
          /\ raised' = FALSE
          /\ UNCHANGED <<bank, cardCounts, turnNumber>>

processMasterMerchant(thief, victim) ==
  /\ Call("masterMerchant", <<thief, victim>>)
  /\ IF HasUndefined(worlds)
     THEN /\ Log(<<Rec("masterMerchant", <<thief, victim>>), Rec("steal", <<thief, victim>>)>>)
          /\ Throws
     ELSE /\ Log(<<Rec("masterMerchant", <<thief, victim>>), Rec("steal", <<thief, victim>>),
                   Rec("steal", <<thief, victim>>)>>)
          /\ worlds' = StealStep(StealStep(worlds, thief, victim), thief, victim)
          /\ raised' = FALSE
          /\ UNCHANGED <<bank, cardCounts, turnNumber>>

processWedding(receiver, gifts) ==
  /\ Call("wedding", <<receiver, gifts>>)
  /\ Log(<<Rec("wedding", <<receiver, gifts>>)>>)
  /\ FilterAndRenormalize(
       [i \in 1..Len(worlds) |-> WeddingWorld(worlds[i], receiver, gifts)], bank)

processDiscard(playerId, discarded) ==
  /\ Call("discard", <<playerId, discarded>>)
  /\ Log(<<Rec("discard", <<playerId, discarded>>)>>)
  /\ FilterAndRenormalize(
       [i \in 1..Len(worlds) |-> DiscardWorld(worlds[i], playerId, discarded)],
       BankUpdate(bank, discarded, 1))

processMonopoly(playerId, resource, takenFrom) ==
  /\ Call("monopoly", <<playerId, resource, takenFrom>>)
  /\ Log(<<Rec("monopoly", <<playerId, resource, takenFrom>>)>>)
  /\ FilterAndRenormalize(
       [i \in 1..Len(worlds) |-> MonopolyWorld(worlds[i], playerId, resource, takenFrom)], bank)

processYearOfPlenty(playerId, resources) ==
  /\ Call("yearOfPlenty", <<playerId, resources>>)
  /\ Log(<<Rec("yearOfPlenty", <<playerId, resources>>)>>)
  /\ IF HasUndefined(worlds) THEN Throws
     ELSE /\ worlds' = [i \in 1..Len(worlds) |-> YearOfPlentyWorld(worlds[i], playerId, resources)]
          /\ bank' = BankUpdate(bank, resources, -1)
          /\ raised' = FALSE
          /\ UNCHANGED <<cardCounts, turnNumber>>

\* Variant of ApplyConstraints that keeps every world.
ApplyConstraintsNoFilter(ws, counts, bnk) ==
  Renormalize(IF Len(ws) = 0 THEN <<NewGameState(playerCount, FALSE)>> ELSE ws)

\* _applyConstraints on an array of proper worlds, under the given constraints.
ApplyConstraints(ws, counts, bnk) ==
  LET kept == SelectSeq(ws, LAMBDA w : GameStateIsValid(w, counts, bnk))
  IN Renormalize(IF Len(kept) = 0 THEN <<NewGameState(playerCount, FALSE)>> ELSE kept)

setCardCount(playerId, count) ==
  /\ Call("setCardCount", <<playerId, count>>)
  /\ cardCounts' = SetCount(cardCounts, playerId, count)
  /\ UNCHANGED <<bank, turnNumber, eventLog>>
  /\ IF HasUndefined(worlds)
     THEN raised' = TRUE /\ UNCHANGED worlds
     ELSE raised' = FALSE /\ worlds' = ApplyConstraints(worlds, cardCounts', bank)

\* Variant of setBank that filters under the bank it had before the call.
setBankOldConstraints(newBank) ==
  /\ Call("setBank", <<newBank>>)
  /\ bank' = newBank
  /\ UNCHANGED <<cardCounts, turnNumber, eventLog>>
  /\ IF HasUndefined(worlds)
     THEN raised' = TRUE /\ UNCHANGED worlds
     ELSE raised' = FALSE /\ worlds' = ApplyConstraints(worlds, cardCounts, bank)

setBank(newBank) ==
  /\ Call("setBank", <<newBank>>)
  /\ bank' = newBank
  /\ UNCHANGED <<cardCounts, turnNumber, eventLog>>
  /\ IF HasUndefined(worlds)
     THEN raised' = TRUE /\ UNCHANGED worlds
     ELSE raised' = FALSE /\ worlds' = ApplyConstraints(worlds, cardCounts, bank')

\* Variant of nextTurn that leaves the counter where it is.
nextTurnStays ==
  /\ Call("nextTurn", <<>>)
  /\ turnNumber' = turnNumber
  /\ raised' = FALSE
  /\ UNCHANGED <<worlds, bank, cardCounts, eventLog>>

nextTurn ==
  /\ Call("nextTurn", <<>>)
  /\ turnNumber' = turnNumber + 1
  /\ raised' = FALSE
  /\ UNCHANGED <<worlds, bank, cardCounts, eventLog>>

\* ----------------------------------------------------------------- queries
\* getMarginals, getConfidence and getDebugInfo read a field of every
\* element of this.worlds; getMostLikelyHand also reads worlds[0].
LoopRaises(ws) == HasUndefined(ws)
MostLikelyRaises(ws) == ws = <<>> \/ HasUndefined(ws)

\* Variant of Query that records the query in the event log.
QueryLogged(op, args, raises) ==
  /\ Call(op, args)
  /\ raised' = raises
  /\ Log(<<Rec(op, args)>>)
  /\ UNCHANGED <<worlds, bank, cardCounts, turnNumber>>

Query(op, args, raises) ==
  /\ Call(op, args)
  /\ raised' = raises
  /\ UNCHANGED <<worlds, bank, cardCounts, turnNumber, eventLog>>

getMarginals(playerId) == Query("getMarginals", <<playerId>>, LoopRaises(worlds))
getMostLikelyHand(playerId) == Query("getMostLikelyHand", <<playerId>>, MostLikelyRaises(worlds))
getConfidence(playerId) == Query("getConfidence", <<playerId>>, LoopRaises(worlds))
getDebugInfo == Query("getDebugInfo", <<>>, LoopRaises(worlds))

\* ------------------------------------------------------------------- Next
Next ==
  \/ \E productions \in Productions \cup (IF isCK THEN CKProductions ELSE {}) :
       processProduction(productions)
  \/ \E b \in BuildInputs : processBuild(b[1], b[2])
  \/ \E t \in BankTradeInputs : processBankTrade(t[1], t[2], t[3])
  \/ \E t \in PlayerTradeInputs : processPlayerTrade(t[1], t[2], t[3], t[4])
  \/ \E s \in StealInputs : processSteal(s[1], s[2])
  \/ \E s \in SpyInputs : processSpy(s[1], s[2], s[3])
  \/ \E s \in MasterMerchantInputs : processMasterMerchant(s[1], s[2])
  \/ \E w \in WeddingInputs : processWedding(w[1], w[2])
  \/ \E d \in DiscardInputs : processDiscard(d[1], d[2])
  \/ \E m \in MonopolyInputs : processMonopoly(m[1], m[2], m[3])
  \/ \E y \in YearOfPlentyInputs : processYearOfPlenty(y[1], y[2])
  \/ \E c \in CardCountInputs : setCardCount(c[1], c[2])
  \/ \E b \in (IF isCK THEN CKBankInputs ELSE BankInputs) :
       setBank(IF isCK THEN CKBank(b) ELSE b)
  \/ nextTurn
  \/ \E p \in QueryPlayers : getMarginals(p)
  \/ \E p \in QueryPlayers : getMostLikelyHand(p)
  \/ \E p \in QueryPlayers : getConfidence(p)
  \/ getDebugInfo

Spec == Init /\ [][Next]_vars

\* new CardTracker(playerCount): every option left at its default.
InitDefault ==
  /\ Init
  /\ maxWorlds = DefaultMaxWorlds
  /\ pruneThreshold = DefaultPruneThreshold
  /\ isCK = FALSE

SpecDefault == InitDefault /\ [][Next]_vars

\* A base-variant tracker with the default world cap (and either prune
\* threshold of Options) whose event log and call history are recorded.
InitLog ==
  /\ Constructed
  /\ logging = TRUE
  /\ maxWorlds = DefaultMaxWorlds
  /\ isCK = FALSE

SpecLog == InitLog /\ [][Next]_vars

\* new CardTracker(playerCount) with its event log and call history recorded.
InitLogDefault ==
  /\ InitLog
  /\ pruneThreshold = DefaultPruneThreshold

SpecLogDefault == InitLogDefault /\ [][Next]_vars

\* new CardTracker(playerCount, {maxWorlds: SmallCap, pruneThreshold: 0.3})
InitCapped ==
  /\ Constructed
  /\ logging = FALSE
  /\ maxWorlds = CappedOption.maxWorlds
  /\ pruneThreshold = CappedOption.pruneThreshold

SpecCapped == InitCapped /\ [][Next]_vars

\* ------------------------------------------------------------ properties
Proper(ws) == ~HasUndefined(ws)
Players == 1..playerCount
CardTypes == IF isCK THEN ALL_CARD_TYPES ELSE RESOURCES
TypeSet(types) == {types[k] : k \in 1..Len(types)}

\* No world of the collection could take the last filtering call.
NoneValid(res) == \A i \in 1..Len(res) : ~res[i][1]

\* C1: after every mutating call the probabilities of the worlds in the
\* collection sum to 1.
C1_ProbabilitySumsToOne ==
  (calls > 0 /\ Proper(worlds)) => SumProb(worlds) = One

\* C2: every component of every Hand of every World in the collection is
\* non-negative, the world kept by a fallback included.
C2_NonNegative ==
  Proper(worlds) =>
    \A i \in 1..Len(worlds) : \A p \in 1..Len(worlds[i].hands) :
      \A k \in 1..Len(worlds[i].hands[p]) : worlds[i].hands[p][k] >= 0

\* A monopoly no world could satisfy left a partly debited first world behind.
C2_Witness ==
  /\ last.op = "monopoly"
  /\ ~raised
  /\ Len(prev) >= 1
  /\ NoneValid([i \in 1..Len(prev) |->
                  MonopolyWorld(prev[i], last.args[1], last.args[2], last.args[3])])
  /\ Len(worlds) = 1
  /\ worlds[1].hands # prev[1].hands
  /\ C2_NonNegative

\* C3: the World collection is never empty, whatever the construction
\* parameters and the events.
C3_NeverEmpty == Len(worlds) >= 1 /\ Proper(worlds)

\* The last call was a steal whose merged and pruned children exceeded maxWorlds.
StealCapped ==
  /\ last.op = "steal"
  /\ Proper(prev)
  /\ Len(Prune(Renormalize(Merge(StealAll(prev, last.args[1], last.args[2], CardTypes))),
               pruneThreshold)) > maxWorlds

\* C4: the number of Worlds never exceeds maxWorlds, and after a steal that
\* was capped the probabilities sum to 1.
C4_WorldCap ==
  /\ Len(worlds) <= maxWorlds
  /\ (StealCapped => SumProb(worlds) = One)

C4_Witness ==
  /\ StealCapped
  /\ Len(worlds) = maxWorlds
  /\ SumProb(worlds) = One

\* Number of worlds of ws for which ok holds.
CountWhere(ws, ok(_)) == Cardinality({i \in 1..Len(ws) : ok(ws[i])})

\* The hand covers every entry of a card set.
Covers(hand, cards) ==
  \A k \in 1..Len(cards) :
    (IF ALL_CARD_INDEX[cards[k][1]] <= Len(hand)
       THEN hand[ALL_CARD_INDEX[cards[k][1]]] ELSE 0) >= cards[k][2]

\* The world can take the last call (discard, bankTrade, playerTrade, monopoly).
CanTake(w) ==
  /\ ~IsUndefined(w)
  /\ CASE last.op = "discard" -> Covers(w.hands[last.args[1]], last.args[2])
       [] last.op = "bankTrade" -> Covers(w.hands[last.args[1]], last.args[2])
       [] last.op = "playerTrade" ->
            /\ Covers(w.hands[last.args[1]], last.args[2])
            /\ Covers(w.hands[last.args[3]], last.args[4])
       [] last.op = "monopoly" ->
            \A k \in 1..Len(last.args[3]) :
              Covers(w.hands[last.args[3][k][1]], << <<last.args[2], last.args[3][k][2]>> >>)
       [] OTHER -> FALSE

DeterministicOps ==
  {"production", "discard", "bankTrade", "playerTrade", "monopoly", "yearOfPlenty"}

\* C5 as stated: production, discard, bank trade, player trade, monopoly and
\* year-of-plenty never change the number of Worlds.
C5_CountPreserved ==
  last.op \in DeterministicOps => Len(worlds) = Len(prev)

\* C5 as amended: production and year-of-plenty never change the number of
\* Worlds; discard, bank trade, player trade and monopoly leave as many
\* Worlds as there were Worlds whose Hands cover the stated amounts, or one
\* World when there was none.
C5_CountAmended ==
  /\ last.op \in {"production", "yearOfPlenty"} => Len(worlds) = Len(prev)
  /\ last.op \in {"discard", "bankTrade", "playerTrade", "monopoly"} =>
       LET n == CountWhere(prev, CanTake)
       IN Len(worlds) = IF n = 0 THEN 1 ELSE n

\* A discard that only some of several worlds could take.
C5_Witness ==
  /\ last.op = "discard"
  /\ Len(prev) >= 2
  /\ CountWhere(prev, CanTake) >= 1
  /\ Len(worlds) < Len(prev)
  /\ Len(worlds) = CountWhere(prev, CanTake)

\* C6: a steal from a victim whose Hand is empty in every World changes
\* neither the number of Worlds, nor any Hand, nor any probability.
C6_EmptyStealNoOp ==
  ( /\ last.op = "steal"
    /\ Proper(prev)
    /\ \A i \in 1..Len(prev) : HandTotal(prev[i].hands[last.args[2]]) = 0 )
  => worlds = prev

\* The card types of the active variant the hand holds at least one of.
HeldTypes(hand) == {ct \in TypeSet(CardTypes) : HandGet(hand, ct) > 0}

\* The last call was a steal from a single world whose victim held cards,
\* and none of its children was pruned or cut by the cap.
SingleSteal ==
  /\ last.op = "steal"
  /\ Proper(prev)
  /\ Len(prev) = 1
  /\ HandTotal(prev[1].hands[last.args[2]]) > 0

NoChildLost ==
  LET hand == prev[1].hands[last.args[2]]
  IN /\ Cardinality(HeldTypes(hand)) <= maxWorlds
     /\ \A ct \in HeldTypes(hand) :
          RGeq(Rat(HandGet(hand, ct), HandTotal(hand)), pruneThreshold)

\* C7: a parent whose victim holds k >= 1 card types yields exactly k
\* children and is not itself among them; a single-world tracker has
\* exactly k worlds after the steal when no child is pruned or capped.
C7_BranchCount ==
  /\ Proper(worlds) =>
       \A i \in 1..Len(worlds) : \A s \in StealInputs :
         LET k == Cardinality(HeldTypes(worlds[i].hands[s[2]]))
             children == StealWorld(worlds[i], s[1], s[2], CardTypes)
         IN k >= 1 =>
              /\ Len(children) = k
              /\ \A j \in 1..Len(children) : children[j].hands # worlds[i].hands
  /\ (SingleSteal /\ NoChildLost) =>
       Len(worlds) = Cardinality(HeldTypes(prev[1].hands[last.args[2]]))

C7_Witness ==
  /\ SingleSteal
  /\ NoChildLost
  /\ Cardinality(HeldTypes(prev[1].hands[last.args[2]])) >= 3
  /\ Len(worlds) = 3

\* getMarginals(player)[cardType].expected
RECURSIVE Expected(_, _, _)
Expected(ws, player, cardType) ==
  IF ws = <<>> THEN Zero
  ELSE RAdd(RScale(HandGet(Head(ws).hands[player], cardType), Head(ws).probability),
            Expected(Tail(ws), player, cardType))

\* For every world of the collection and every steal: the child in which
\* x was stolen weighs parent * c/t, and the children weigh the parent.
ChildWeights ==
  Proper(worlds) =>
    \A i \in 1..Len(worlds) : \A s \in StealInputs :
      LET w == worlds[i]
          hand == w.hands[s[2]]
          t == HandTotal(hand)
          children == StealWorld(w, s[1], s[2], CardTypes)
      IN t > 0 =>
           /\ \A ct \in HeldTypes(hand) :
                \E j \in 1..Len(children) :
                  /\ HandGet(children[j].hands[s[2]], ct) = HandGet(hand, ct) - 1
                  /\ HandGet(children[j].hands[s[1]], ct) = HandGet(w.hands[s[1]], ct) + 1
                  /\ RScale(t, children[j].probability) = RScale(HandGet(hand, ct), w.probability)
           /\ SumProb(children) = w.probability

\* C8 as stated: child weights parent * c/t, children sum to the parent, and
\* after a single steal from a single-world tracker the thief's expected
\* count of x is exactly c/t.
C8_StealWeights ==
  /\ ChildWeights
  /\ SingleSteal =>
       LET hand == prev[1].hands[last.args[2]]
       IN \A ct \in HeldTypes(hand) :
            Expected(worlds, last.args[1], ct) = Rat(HandGet(hand, ct), HandTotal(hand))

\* C8 as amended: child weights parent * c/t, children sum to the parent,
\* and after a single steal from a single-world tracker in which no child is
\* pruned or capped the thief's expected count of x is the thief's prior
\* count of x plus c/t.
C8_StealWeightsAmended ==
  /\ ChildWeights
  /\ (SingleSteal /\ NoChildLost) =>
       LET hand == prev[1].hands[last.args[2]]
       IN \A ct \in HeldTypes(hand) :
            Expected(worlds, last.args[1], ct) =
              RAdd(Rat(HandGet(prev[1].hands[last.args[1]], ct), 1),
                   Rat(HandGet(hand, ct), HandTotal(hand)))

\* A thief who already held wood stole from {wood: 2, brick: 1, ...}.
C8_Witness ==
  /\ SingleSteal
  /\ NoChildLost
  /\ HandGet(prev[1].hands[last.args[1]], "wood") >= 1
  /\ HandGet(prev[1].hands[last.args[2]], "wood") = 2
  /\ Cardinality(HeldTypes(prev[1].hands[last.args[2]])) >= 2
  /\ Len(worlds) >= 2

\* Amount of one card type in a card set.
RECURSIVE CostOf(_, _)
CostOf(cards, cardType) ==
  IF cards = <<>> THEN 0
  ELSE (IF Head(cards)[1] = cardType THEN Head(cards)[2] ELSE 0) + CostOf(Tail(cards), cardType)

\* The last call was a build of a known kind that some world could afford.
AffordedBuild ==
  /\ last.op = "build"
  /\ KnownBuilding(last.args[2])
  /\ Proper(prev)
  /\ \E i \in 1..Len(prev) : Covers(prev[i].hands[last.args[1]], BUILDING_COSTS[last.args[2]])

\* C9: when some world can afford a build of a known kind, the collection
\* afterwards is exactly the prior worlds whose builder Hand covered the
\* cost, in order, each with the cost deducted from the builder's Hand only,
\* and with probabilities rescaled to sum to 1.
C9_BuildFilters ==
  AffordedBuild =>
    LET builder == last.args[1]
        cost == BUILDING_COSTS[last.args[2]]
        S == {i \in 1..Len(prev) : Covers(prev[i].hands[builder], cost)}
        mass == SumProb(SelectSeq(prev, LAMBDA w : Covers(w.hands[builder], cost)))
        Src(j) == CHOOSE i \in S : Cardinality({m \in S : m < i}) = j - 1
    IN /\ Len(worlds) = Cardinality(S)
       /\ \A j \in 1..Len(worlds) :
            LET old == prev[Src(j)]
            IN /\ \A q \in Players \ {builder} : worlds[j].hands[q] = old.hands[q]
               /\ Len(worlds[j].hands[builder]) = Len(old.hands[builder])
               /\ \A ct \in TypeSet(ALL_CARD_TYPES) :
                    HandGet(worlds[j].hands[builder], ct) =
                      HandGet(old.hands[builder], ct) - CostOf(cost, ct)
               /\ RMul(worlds[j].probability, mass) = old.probability
       /\ SumProb(worlds) = One

\* A steal among three card types, then a build only one child can afford.
C9_Witness ==
  /\ AffordedBuild
  /\ Len(prev) >= 3
  /\ Len(worlds) = 1
  /\ worlds[1].probability = One
  /\ worlds[1].hands[last.args[1]] # prev[1].hands[last.args[1]]

\* The event handlers (constraint setters, nextTurn and queries are not events).
EventOps ==
  {"production", "build", "bankTrade", "playerTrade", "steal", "spy", "masterMerchant",
   "wedding", "discard", "monopoly", "yearOfPlenty"}

\* Bank conservation of one collection against a bank.
Conserved(ws, bnk) ==
  \A i \in 1..Len(ws) : \A k \in 1..Len(RESOURCES) :
    GetTotalCardType(ws[i], RESOURCES[k]) + bnk[RESOURCES[k]] = TOTAL_PER_RESOURCE

\* C10: once setBank has set a snapshot, after every subsequent event every
\* World satisfies, for every base resource, holders' total + bank = 19.
C10_BankConservation ==
  (~IsNull(bank) /\ last.op \in EventOps /\ Proper(worlds)) => Conserved(worlds, bank)

\* C11: for every player with an entry in cardCounts, the player's Hand
\* total equals the recorded count in every World of the collection.
C11_KnownTotals ==
  Proper(worlds) =>
    \A p \in DOMAIN cardCounts : \A i \in 1..Len(worlds) :
      HandTotal(worlds[i].hands[p]) = cardCounts[p]

\* The prior worlds that satisfy the constraints as they stand now.
Fits == {i \in 1..Len(prev) : GameStateIsValid(prev[i], cardCounts, bank)}

AllZero(w) ==
  \A p \in 1..Len(w.hands) : \A k \in 1..Len(w.hands[p]) : w.hands[p][k] = 0

\* C12 as stated: after setCardCount(p, c) returns, p's Hand total is c in
\* every World of the collection.
C12_CardCountEnforced ==
  (last.op = "setCardCount" /\ ~raised) =>
    \A i \in 1..Len(worlds) : HandTotal(worlds[i].hands[last.args[1]]) = last.args[2]

\* C12 as amended: after setCardCount(p, c) returns, either some prior World
\* satisfied the constraints and p's Hand total is c in every World, or none
\* did and the collection is a single all-zero World of probability 1.
C12_CardCountAmended ==
  (last.op = "setCardCount" /\ ~raised) =>
    /\ Fits # {} =>
         /\ Len(worlds) = Cardinality(Fits)
         /\ \A i \in 1..Len(worlds) :
              HandTotal(worlds[i].hands[last.args[1]]) = last.args[2]
    /\ Fits = {} =>
         /\ Len(worlds) = 1
         /\ AllZero(worlds[1])
         /\ worlds[1].probability = One

\* A count that agrees with several worlds holding cards.
C12_Witness ==
  /\ last.op = "setCardCount"
  /\ ~raised
  /\ Len(prev) >= 2
  /\ Len(worlds) = Len(prev)
  /\ last.args[2] > 0
  /\ \A i \in 1..Len(worlds) :
       HandTotal(worlds[i].hands[last.args[1]]) = last.args[2]

WellFormedCall == ~(last.op = "build" /\ ~KnownBuilding(last.args[2]))

\* C14: no event handler, constraint setter or query raises on a
\* well-formed call, whatever the construction parameters.
C14_NeverRaises == WellFormedCall => ~raised

\* ---------------------------------------------------- a second tracker
\* The tracker state right after new CardTracker(playerCount, options)
\* with the same parameters.
Fresh ==
  [worlds |-> <<NewGameState(playerCount, isCK)>>, bank |-> Null, cardCounts |-> <<>>,
   turnNumber |-> 0, raised |-> FALSE]

\* One call c = [op, args] made on a tracker in state st: the state it leaves.
Apply(st, c) ==
  LET ws == st.worlds
      a == c.args
      und == HasUndefined(ws)
      thrown == [st EXCEPT !.raised = TRUE]
      Filtered(res, bankAfter) ==
        IF und THEN thrown
        ELSE LET kept == ValidOrFirst(res)
             IN IF HasUndefined(kept)
                THEN [st EXCEPT !.worlds = kept, !.raised = TRUE]
                ELSE [st EXCEPT !.worlds = Renormalize(kept), !.bank = bankAfter,
                                !.raised = FALSE]
      Stolen(thief, victim) ==
        IF und THEN thrown
        ELSE [st EXCEPT !.worlds = StealStep(ws, thief, victim), !.raised = FALSE]
      Asked(raises) == [st EXCEPT !.raised = raises]
  IN CASE c.op = "production" ->
            IF und THEN thrown
            ELSE [st EXCEPT !.worlds = [i \in 1..Len(ws) |-> ProduceWorld(ws[i], a)],
                            !.bank = BankProduction(st.bank, a),
                            !.cardCounts = UpdateCardCounts(st.cardCounts, a),
                            !.raised = FALSE]
       [] c.op = "build" ->
            IF ~KnownBuilding(a[2]) \/ und THEN thrown
            ELSE LET cost == BUILDING_COSTS[a[2]]
                 IN [st EXCEPT !.worlds = BuildResult(ws, a[1], cost),
                               !.bank = BankUpdate(st.bank, cost, 1),
                               !.cardCounts = SetCount(st.cardCounts, a[1],
                                 CountOrZero(st.cardCounts, a[1]) - SumAmounts(cost)),
                               !.raised = FALSE]
       [] c.op = "bankTrade" ->
            Filtered([i \in 1..Len(ws) |-> BankTradeWorld(ws[i], a[1], a[2], a[3])],
                     BankUpdate(BankUpdate(st.bank, a[2], 1), a[3], -1))
       [] c.op = "playerTrade" ->
            Filtered([i \in 1..Len(ws) |-> PlayerTradeWorld(ws[i], a[1], a[2], a[3], a[4])],
                     st.bank)
       [] c.op = "steal" -> Stolen(a[1], a[2])
       [] c.op = "spy" ->
            IF Len(a) = 3 /\ a[3] # NullCard
            THEN Filtered([i \in 1..Len(ws) |-> SpyWorld(ws[i], a[1], a[2], a[3])], st.bank)
            ELSE Stolen(a[1], a[2])
       [] c.op = "masterMerchant" ->
            IF und THEN thrown
            ELSE [st EXCEPT !.worlds = StealStep(StealStep(ws, a[1], a[2]), a[1], a[2]),
                            !.raised = FALSE]
       [] c.op = "wedding" ->
            Filtered([i \in 1..Len(ws) |-> WeddingWorld(ws[i], a[1], a[2])], st.bank)
       [] c.op = "discard" ->
            Filtered([i \in 1..Len(ws) |-> DiscardWorld(ws[i], a[1], a[2])],
                     BankUpdate(st.bank, a[2], 1))
       [] c.op = "monopoly" ->
            Filtered([i \in 1..Len(ws) |-> MonopolyWorld(ws[i], a[1], a[2], a[3])], st.bank)
       [] c.op = "yearOfPlenty" ->
            IF und THEN thrown
            ELSE [st EXCEPT !.worlds = [i \in 1..Len(ws) |-> YearOfPlentyWorld(ws[i], a[1], a[2])],
                            !.bank = BankUpdate(st.bank, a[2], -1),
                            !.raised = FALSE]
       [] c.op = "setCardCount" ->
            LET counts == SetCount(st.cardCounts, a[1], a[2])
            IN IF und THEN [st EXCEPT !.cardCounts = counts, !.raised = TRUE]
               ELSE [st EXCEPT !.cardCounts = counts,
                               !.worlds = ApplyConstraints(ws, counts, st.bank),
                               !.raised = FALSE]
       [] c.op = "setBank" ->
            IF und THEN [st EXCEPT !.bank = a[1], !.raised = TRUE]
            ELSE [st EXCEPT !.bank = a[1],
                            !.worlds = ApplyConstraints(ws, st.cardCounts, a[1]),
                            !.raised = FALSE]
       [] c.op = "nextTurn" -> [st EXCEPT !.turnNumber = @ + 1, !.raised = FALSE]
       [] c.op = "getMostLikelyHand" -> Asked(MostLikelyRaises(ws))
       [] OTHER -> Asked(LoopRaises(ws))

\* The calls cs made one after the other, starting from st.
RECURSIVE RunCalls(_, _)
RunCalls(st, cs) == IF cs = <<>> THEN st ELSE RunCalls(Apply(st, Head(cs)), Tail(cs))

\* The state of this tracker, as a record.
Current ==
  [worlds |-> worlds, bank |-> bank, cardCounts |-> cardCounts,
   turnNumber |-> turnNumber, raised |-> raised]

Replay(log) ==
  RunCalls(Fresh, [k \in 1..Len(log) |-> [op |-> log[k].type, args |-> log[k].data]])

\* C16: re-applying the records of the event log to a fresh tracker with
\* the same parameters reproduces the World collection and probabilities.
C16_ReplayFromLog == logging => worlds = Replay(eventLog).worlds

\* The last call's grants as a productions map: production names several
\* players, year-of-plenty one.
Granted ==
  IF last.op = "production" THEN last.args ELSE << <<last.args[1], last.args[2]>> >>

\* Amount of one card type the map states for one player.
RECURSIVE StatedFor(_, _, _)
StatedFor(productions, p, cardType) ==
  IF productions = <<>> THEN 0
  ELSE (IF Head(productions)[1] = p THEN CostOf(Head(productions)[2], cardType) ELSE 0)
       + StatedFor(Tail(productions), p, cardType)

Named(productions) == {productions[k][1] : k \in 1..Len(productions)}

\* C17: processProduction and processYearOfPlenty add exactly the stated
\* amount of each card type to each named player's Hand in every World, and
\* leave the other Hands, the number and order of Worlds and every
\* probability unchanged.
C17_PureAddition ==
  (last.op \in {"production", "yearOfPlenty"} /\ ~raised) =>
    /\ Len(worlds) = Len(prev)
    /\ \A i \in 1..Len(worlds) :
         /\ worlds[i].probability = prev[i].probability
         /\ \A p \in Players :
              /\ \A ct \in TypeSet(CardTypes) :
                   HandGet(worlds[i].hands[p], ct) =
                     HandGet(prev[i].hands[p], ct) + StatedFor(Granted, p, ct)
              /\ p \notin Named(Granted) => worlds[i].hands[p] = prev[i].hands[p]

\* World w is parent with n cards moved from victim to thief: totals shifted
\* by n, the other Hands equal, every per-type total over all players equal.
Moved(parent, w, thief, victim, n) ==
  /\ HandTotal(w.hands[victim]) = HandTotal(parent.hands[victim]) - n
  /\ HandTotal(w.hands[thief]) = HandTotal(parent.hands[thief]) + n
  /\ \A q \in Players \ {thief, victim} : w.hands[q] = parent.hands[q]
  /\ \A k \in 1..Len(ALL_CARD_TYPES) :
       GetTotalCardType(w, ALL_CARD_TYPES[k]) = GetTotalCardType(parent, ALL_CARD_TYPES[k])

\* Every world of prev has a victim holding at least n cards.
VictimHolds(victim, n) ==
  /\ Proper(prev)
  /\ Len(prev) >= 1
  /\ \A i \in 1..Len(prev) : HandTotal(prev[i].hands[victim]) >= n

\* C18: for thief # victim, every child processSteal produces from a parent
\* whose victim holds cards has the victim's total one less, the thief's
\* one more, the other Hands and every per-type total unchanged; after a
\* steal every World descends that way from a prior World, and after the
\* two steals of processMasterMerchant from a victim holding at least two
\* cards in all Worlds the totals have shifted by two.
C18_StealMovesOneCard ==
  /\ Proper(worlds) =>
       \A i \in 1..Len(worlds) : \A s \in StealInputs :
         (s[1] # s[2] /\ HandTotal(worlds[i].hands[s[2]]) > 0) =>
           LET children == StealWorld(worlds[i], s[1], s[2], CardTypes)
           IN \A j \in 1..Len(children) : Moved(worlds[i], children[j], s[1], s[2], 1)
  /\ (last.op = "steal" /\ VictimHolds(last.args[2], 1)) =>
       \A j \in 1..Len(worlds) : \E i \in 1..Len(prev) :
         Moved(prev[i], worlds[j], last.args[1], last.args[2], 1)
  /\ (last.op = "masterMerchant" /\ VictimHolds(last.args[2], 2)) =>
       \A j \in 1..Len(worlds) : \E i \in 1..Len(prev) :
         Moved(prev[i], worlds[j], last.args[1], last.args[2], 2)

\* A steal from several worlds in all of which the victim held cards.
C18_Witness ==
  /\ last.op = "steal"
  /\ VictimHolds(last.args[2], 1)
  /\ Len(prev) >= 2
  /\ Len(worlds) >= 2
  /\ \A j \in 1..Len(worlds) : \E i \in 1..Len(prev) :
       Moved(prev[i], worlds[j], last.args[1], last.args[2], 1)

\* The prior worlds in which both players cover their give-sets.
TradeOk(w) ==
  /\ Covers(w.hands[last.args[1]], last.args[2])
  /\ Covers(w.hands[last.args[3]], last.args[4])

\* After a player trade: a prior world in which a player lacks a card is
\* dropped, or kept with all its Hands unchanged when it is the fallback
\* world; every other world has both transfers applied in full, the other
\* Hands unchanged and the per-type totals over the two players unchanged.
TradeApplied ==
  LET player1 == last.args[1]
      give1 == last.args[2]
      player2 == last.args[3]
      give2 == last.args[4]
      S == {i \in 1..Len(prev) : TradeOk(prev[i])}
      Src(j) == CHOOSE i \in S : Cardinality({m \in S : m < i}) = j - 1
  IN IF S = {}
     THEN Len(worlds) = 1 /\ worlds[1].hands = prev[1].hands
     ELSE /\ Len(worlds) = Cardinality(S)
          /\ \A j \in 1..Len(worlds) :
               LET old == prev[Src(j)]
                   new == worlds[j]
               IN /\ \A q \in Players \ {player1, player2} : new.hands[q] = old.hands[q]
                  /\ \A ct \in TypeSet(ALL_CARD_TYPES) :
                       /\ HandGet(new.hands[player1], ct) =
                            HandGet(old.hands[player1], ct) - CostOf(give1, ct) + CostOf(give2, ct)
                       /\ HandGet(new.hands[player2], ct) =
                            HandGet(old.hands[player2], ct) + CostOf(give1, ct) - CostOf(give2, ct)
                       /\ SumSeq([k \in 1..2 |-> HandGet(new.hands[<<player1, player2>>[k]], ct)]) =
                            SumSeq([k \in 1..2 |-> HandGet(old.hands[<<player1, player2>>[k]], ct)])

\* A player trade on a non-empty collection that returned.
TradeDone ==
  /\ last.op = "playerTrade"
  /\ ~raised
  /\ Proper(prev)
  /\ Len(prev) >= 1

RECURSIVE GiftTotal(_, _)
GiftTotal(gifts, cardType) ==
  IF gifts = <<>> THEN 0
  ELSE CostOf(Head(gifts)[2], cardType) + GiftTotal(Tail(gifts), cardType)

\* World new is world old with every giver's full gift set moved to the receiver.
FullyGiven(old, new, receiver, gifts) ==
  \A q \in Players : \A ct \in TypeSet(ALL_CARD_TYPES) :
    HandGet(new.hands[q], ct) =
      HandGet(old.hands[q], ct) - StatedFor(gifts, q, ct)
        + (IF q = receiver THEN GiftTotal(gifts, ct) ELSE 0)

\* C20: every World in the collection after processWedding, the World
\* retained when no World could satisfy every giver included, is a prior
\* World with either every giver's full gift set moved to the receiver or
\* no Hand changed.
C20_WeddingAllOrNothing ==
  (last.op = "wedding" /\ ~raised /\ Proper(prev) /\ Len(prev) >= 1) =>
    \A j \in 1..Len(worlds) : \E i \in 1..Len(prev) :
      \/ worlds[j].hands = prev[i].hands
      \/ FullyGiven(prev[i], worlds[j], last.args[1], last.args[2])

\* Every victim of the last monopoly call could pay in world w.
VictimsPay(w) ==
  \A k \in 1..Len(last.args[3]) :
    HandGet(w.hands[last.args[3][k][1]], last.args[2]) >= last.args[3][k][2]

\* The prior world that world j of the collection was before the last
\* filtering call: the j-th of the prior worlds satisfying ok, or the first
\* prior world when none does.
Origin(j, ok(_)) ==
  LET S == {i \in 1..Len(prev) : ok(prev[i])}
  IN IF S = {} THEN 1 ELSE CHOOSE i \in S : Cardinality({m \in S : m < i}) = j - 1

\* C21: in every World after processMonopoly, the retained World included,
\* the total of the named type over all players is what it was in that
\* World before the call; where every victim could pay, each victim lost
\* its stated amount and the collector gained their sum.
C21_MonopolyMovesCards ==
  (last.op = "monopoly" /\ ~raised /\ Proper(prev) /\ Len(prev) >= 1) =>
    \A j \in 1..Len(worlds) :
      LET old == prev[Origin(j, VictimsPay)]
          new == worlds[j]
          collector == last.args[1]
          type == last.args[2]
          takenFrom == last.args[3]
      IN /\ GetTotalCardType(new, type) = GetTotalCardType(old, type)
         /\ VictimsPay(old) =>
              \A q \in Players :
                HandGet(new.hands[q], type) =
                  HandGet(old.hands[q], type) - CostOf(takenFrom, q)
                    + (IF q = collector THEN SumAmounts(takenFrom) ELSE 0)

\* The last call was processSpy with a stated card that some prior world's
\* victim holds.
KnownSpy ==
  /\ last.op = "spy"
  /\ last.args[3] # NullCard
  /\ Proper(prev)
  /\ \E i \in 1..Len(prev) : HandGet(prev[i].hands[last.args[2]], last.args[3]) >= 1

\* The collection is the prior worlds whose victim holds the card, in
\* order, each with one unit moved from victim to thief, rescaled to sum 1.
SpyMoved ==
  LET thief == last.args[1]
      victim == last.args[2]
      card == last.args[3]
      Holds(w) == HandGet(w.hands[victim], card) >= 1
      mass == SumProb(SelectSeq(prev, Holds))
  IN /\ Len(worlds) = Cardinality({i \in 1..Len(prev) : Holds(prev[i])})
     /\ \A j \in 1..Len(worlds) :
          LET old == prev[Origin(j, Holds)]
          IN /\ \A q \in Players :
                  /\ Len(worlds[j].hands[q]) = Len(old.hands[q])
                  /\ \A ct \in TypeSet(ALL_CARD_TYPES) :
                       HandGet(worlds[j].hands[q], ct) =
                         HandGet(old.hands[q], ct)
                           - (IF q = victim /\ ct = card THEN 1 ELSE 0)
                           + (IF q = thief /\ ct = card THEN 1 ELSE 0)
             /\ RMul(worlds[j].probability, mass) = old.probability
     /\ SumProb(worlds) = One

\* processSpy without a card leaves what processSteal leaves from the same state.
SpyAsSteal ==
  (last.op = "spy" /\ last.args[3] = NullCard) =>
    Current = Apply([Current EXCEPT !.worlds = prev],
                    [op |-> "steal", args |-> <<last.args[1], last.args[2]>>])

TwoSteals ==
  LET steal == [op |-> "steal", args |-> <<last.args[1], last.args[2]>>]
  IN RunCalls([Current EXCEPT !.worlds = prev], <<steal, steal>>)

\* C23: processMasterMerchant(thief, victim) leaves the same collection
\* (hands, probabilities, order) as two successive processSteal(thief,
\* victim) calls from the same state, each followed by its own
\* merge-and-prune.
C23_MasterMerchantIsTwoSteals ==
  last.op = "masterMerchant" =>
    /\ worlds = TwoSteals.worlds
    /\ raised = TwoSteals.raised

\* A double steal whose first step was cut by the cap and whose second
\* step was pruned: neither step alone gives the result.
C23_Witness ==
  /\ last.op = "masterMerchant"
  /\ ~raised
  /\ Proper(prev)
  /\ LET cardTypes == IF isCK THEN ALL_CARD_TYPES ELSE RESOURCES
         first == StealAll(prev, last.args[1], last.args[2], cardTypes)
         mid == StealStep(prev, last.args[1], last.args[2])
     IN /\ Len(Merge(first)) > maxWorlds
        /\ Len(Merge(StealAll(mid, last.args[1], last.args[2], cardTypes))) > Len(worlds)
        /\ Len(worlds) >= 1
  /\ worlds = TwoSteals.worlds

\* The children of the last steal-like call's first branching, before
\* _mergeAndPrune.
Branched ==
  StealAll(prev, last.args[1], last.args[2], IF isCK THEN ALL_CARD_TYPES ELSE RESOURCES)

\* The probability the worlds of ws with the hash of w carry together.
MassOf(ws, w) == SumProb(SelectSeq(ws, LAMBDA x : Hash(x) = Hash(w)))

\* C24: after every event no two worlds of the collection have the same
\* hash; the merge of _mergeAndPrune leaves one world per hash, carrying
\* the sum of the probabilities of the worlds with that hash, so the total
\* mass is unchanged by merging.
C24_MergedAfterEvent ==
  /\ Proper(worlds) =>
       \A i, j \in 1..Len(worlds) : Hash(worlds[i]) = Hash(worlds[j]) => i = j
  /\ (last.op \in {"steal", "masterMerchant"} /\ Proper(prev)) =>
       LET merged == Merge(Branched)
       IN /\ \A i, j \in 1..Len(merged) : Hash(merged[i]) = Hash(merged[j]) => i = j
          /\ \A k \in 1..Len(Branched) :
               \E i \in 1..Len(merged) :
                 /\ Hash(merged[i]) = Hash(Branched[k])
                 /\ merged[i].probability = MassOf(Branched, Branched[k])
          /\ SumProb(merged) = SumProb(Branched)

\* A steal whose branching produced the same hands along two paths: the
\* merge left fewer worlds than the branching made, and several remain.
C24_Witness ==
  /\ last.op = "steal"
  /\ ~raised
  /\ Proper(prev)
  /\ Len(prev) >= 2
  /\ Len(Merge(Branched)) < Len(Branched)
  /\ Len(worlds) >= 2
  /\ \A i, j \in 1..Len(worlds) : Hash(worlds[i]) = Hash(worlds[j]) => i = j

\* The merged children of the last steal, renormalized, and those of them
\* at or above the prune threshold.
MergedChildren == Renormalize(Merge(Branched))
AboveThreshold ==
  {i \in 1..Len(MergedChildren) : RGeq(MergedChildren[i].probability, pruneThreshold)}
KeptChildren ==
  {i \in 1..Len(MergedChildren) :
     \E j \in 1..Len(worlds) : Hash(worlds[j]) = Hash(MergedChildren[i])}

Maximal ==
  {i \in 1..Len(worlds) :
     \A j \in 1..Len(worlds) : RGeq(worlds[i].probability, worlds[j].probability)}

\* C26: whenever getMostLikelyHand(player) returns, it returns the
\* player's hand, as an object
\* keyed by card name that leaves out no card the hand holds, from the
\* first world of the collection among those of maximal probability.
C26_MostLikelyHand ==
  (last.op = "getMostLikelyHand" /\ ~raised) =>
    LET player == last.args[1]
        first == CHOOSE i \in Maximal : \A j \in Maximal : i <= j
    IN /\ Maximal # {}
       /\ ~IsUndefined(mostLikely)
       /\ \A name \in DOMAIN mostLikely :
            mostLikely[name] = HandGet(worlds[first].hands[player], name)
       /\ TypeSet(RESOURCES) \subseteq DOMAIN mostLikely
       /\ \A name \in TypeSet(ALL_CARD_TYPES) \ DOMAIN mostLikely :
            HandGet(worlds[first].hands[player], name) = 0

\* A query on a collection where several worlds tie for the maximum and
\* give the player different hands.
C26_Witness ==
  /\ last.op = "getMostLikelyHand"
  /\ ~raised
  /\ Cardinality(Maximal) >= 2
  /\ \E i, j \in Maximal :
       worlds[i].hands[last.args[1]] # worlds[j].hands[last.args[1]]
  /\ \A name \in DOMAIN mostLikely :
       mostLikely[name] = HandGet(worlds[1].hands[last.args[1]], name)

\* The record rec describes the call c: its type and arguments; a spy
\* without a card is recorded by processSteal as a steal.
RecordOf(c, rec) ==
  IF c.op = "spy" /\ c.args[3] = NullCard
  THEN rec.type = "steal" /\ rec.data = <<c.args[1], c.args[2]>>
  ELSE rec.type = c.op /\ rec.data = c.args

\* C27: the log only grows at its end: after every step the old log is a
\* prefix of the new one. Every event handler call, except processBuild of
\* an unknown kind, appends the record of the call, stamped with the
\* current turn, whether or not a later statement of the handler raises; so
\* no handler changes a world without having logged the call.
C27_AppendOnlyLog ==
  [][/\ Len(eventLog') >= Len(eventLog)
     /\ SubSeq(eventLog', 1, Len(eventLog)) = eventLog
     /\ (/\ logging
         /\ last'.op \in EventOps
         /\ ~(last'.op = "build" /\ ~KnownBuilding(last'.args[2])))
        => /\ Len(eventLog') > Len(eventLog)
           /\ eventLog'[Len(eventLog) + 1].turn = turnNumber
           /\ RecordOf(last', eventLog'[Len(eventLog) + 1])]_vars

\* Three events logged in call order, the last of which changed the worlds.
C27_Witness ==
  /\ logging
  /\ last.op \in EventOps
  /\ ~raised
  /\ worlds # prev
  /\ Len(eventLog) >= 3
  /\ Len(history) = 3
  /\ \A k \in 1..3 : RecordOf(history[k], eventLog[k])

\* C28: the turn counter never decreases: nextTurn adds exactly 1 to it
\* and leaves the worlds, the bank, the known card counts, the event log
\* and the construction parameters as they were; every other operation
\* leaves the counter unchanged.
C28_TurnCounter ==
  [][/\ turnNumber' >= turnNumber
     /\ IF last'.op = "nextTurn"
        THEN /\ turnNumber' = turnNumber + 1
             /\ ~raised'
             /\ UNCHANGED <<worlds, bank, cardCounts, eventLog, playerCount, maxWorlds,
                            pruneThreshold, isCK>>
        ELSE turnNumber' = turnNumber]_vars

\* A turn ended on a tracker that holds several worlds and a non-empty
\* log, and the last record still carries the turn before.
C28_Witness ==
  /\ last.op = "nextTurn"
  /\ turnNumber >= 1
  /\ Len(worlds) >= 2
  /\ worlds = prev
  /\ Len(eventLog) >= 2
  /\ eventLog[Len(eventLog)].turn = turnNumber - 1

\* The last call was a bank trade, a player trade, a discard or a spy with
\* a stated card.
LocalFilterCall ==
  \/ last.op \in {"bankTrade", "playerTrade", "discard"}
  \/ last.op = "spy" /\ last.args[3] # NullCard

\* The call cannot have happened in world w: a hand lacks a card it
\* must give up.
Inconsistent(w) ==
  CASE last.op = "bankTrade" -> ~Covers(w.hands[last.args[1]], last.args[2])
    [] last.op = "discard" -> ~Covers(w.hands[last.args[1]], last.args[2])
    [] last.op = "playerTrade" -> ~TradeOk(w)
    [] last.op = "spy" -> HandGet(w.hands[last.args[2]], last.args[3]) < 1

\* Every world of a non-empty collection was inconsistent with the last call.
AllInconsistent ==
  /\ LocalFilterCall
  /\ Proper(prev)
  /\ Len(prev) >= 1
  /\ \A i \in 1..Len(prev) : Inconsistent(prev[i])

\* C29: when a bank trade, a player trade, a discard or a spy with a
\* stated card is inconsistent with every world of a non-empty collection,
\* the collection afterwards is exactly one world: the first world of the
\* prior collection, with every hand unchanged, carrying probability 1.
C29_EventFallback ==
  AllInconsistent =>
    /\ ~raised
    /\ worlds = << [hands |-> prev[1].hands, probability |-> One] >>

\* The fallback taken from several different worlds, none of them the
\* certain one.
C29_Witness ==
  /\ AllInconsistent
  /\ Len(prev) >= 3
  /\ \A i \in 2..Len(prev) : prev[i].hands # prev[1].hands
  /\ prev[1].probability # One
  /\ worlds = << [hands |-> prev[1].hands, probability |-> One] >>

\* The bank after the cost of a build went back to it.
BankPlus(bnk, cost) ==
  IF IsNull(bnk) THEN bnk
  ELSE [t \in DOMAIN bnk |-> bnk[t] + CostOf(cost, t)]

\* C30: when processBuild of a known kind finds no world that can afford
\* the cost, it leaves exactly one world, the first world of the prior
\* collection with every hand as it was, while the bank, if set, gains the
\* cost and the builder's known card count drops by the size of the cost.
C30_BuildFallback ==
  [][(/\ last'.op = "build"
      /\ KnownBuilding(last'.args[2])
      /\ Proper(worlds)
      /\ \A i \in 1..Len(worlds) :
           ~Covers(worlds[i].hands[last'.args[1]], BUILDING_COSTS[last'.args[2]]))
     => LET builder == last'.args[1]
            cost == BUILDING_COSTS[last'.args[2]]
        IN /\ Len(worlds') = 1
           /\ Len(worlds) >= 1
           /\ Proper(worlds')
           /\ worlds'[1].hands = worlds[1].hands
           /\ bank' = BankPlus(bank, cost)
           /\ cardCounts'[builder] = CountOrZero(cardCounts, builder) - SumAmounts(cost)]_vars

\* The world passes isValid under the card counts and the bank now recorded.
FitsNow(w) == GameStateIsValid(w, cardCounts, bank)

\* C31: after setCardCount or setBank the collection is exactly the prior
\* worlds that pass isValid under all recorded card counts and the bank, in
\* their prior order, with hands unchanged and probabilities rescaled to
\* sum to 1; if none passes it is a single world with an all-zero hand for
\* every player and probability 1.
C31_ConstraintApplication ==
  (last.op \in {"setCardCount", "setBank"} /\ Proper(prev)) =>
    /\ ~raised
    /\ IF Fits # {}
       THEN LET mass == SumProb(SelectSeq(prev, FitsNow))
            IN /\ Len(worlds) = Cardinality(Fits)
               /\ \A j \in 1..Len(worlds) :
                    LET old == prev[Origin(j, FitsNow)]
                    IN /\ worlds[j].hands = old.hands
                       /\ RMul(worlds[j].probability, mass) = old.probability
               /\ SumProb(worlds) = One
       ELSE /\ Len(worlds) = 1
            /\ Len(worlds[1].hands) = playerCount
            /\ AllZero(worlds[1])
            /\ worlds[1].probability = One

\* A bank snapshot that contradicts every one of several worlds holding
\* cards: the collection is reset.
C31_Witness ==
  /\ last.op = "setBank"
  /\ ~raised
  /\ Len(prev) >= 2
  /\ \E i \in 1..Len(prev) : ~AllZero(prev[i])
  /\ Fits = {}
  /\ Len(worlds) = 1
  /\ AllZero(worlds[1])

\* The supply of a card type.
Supply(type) ==
  IF type \in TypeSet(RESOURCES) THEN TOTAL_PER_RESOURCE ELSE TOTAL_PER_COMMODITY

\* The condition as stated: every component of every hand is >= 0, every
\* player with a known card count holds that many cards, and when a bank is
\* given every card type of the active variant is conserved.
StatedValid(w, counts, bnk) ==
  /\ \A p \in 1..Len(w.hands) :
       /\ \A k \in 1..Len(w.hands[p]) : w.hands[p][k] >= 0
       /\ p \in DOMAIN counts => HandTotal(w.hands[p]) = counts[p]
  /\ ~IsNull(bnk) =>
       \A type \in TypeSet(CardTypes) :
         GetTotalCardType(w, type) + bnk[type] = Supply(type)

RECURSIVE RSumOver(_, _)
RSumOver(S, f) ==
  IF S = {} THEN Zero
  ELSE LET n == CHOOSE x \in S : TRUE IN RAdd(f[n], RSumOver(S \ {n}, f))

\* The counts of a card type the queried player holds over the worlds, and
\* the probability of the worlds where the count is n.
CountsOf(cardType) ==
  {HandGet(worlds[i].hands[last.args[1]], cardType) : i \in 1..Len(worlds)}
MassAt(cardType, n) ==
  SumProb(SelectSeq(worlds, LAMBDA w : HandGet(w.hands[last.args[1]], cardType) = n))

\* C33: for the queried player and every card type, getMarginals reports
\* as min and max the smallest and largest count over the worlds, a
\* distribution over exactly the observed counts whose mass at n is the
\* summed probability of the worlds with count n (the masses summing to
\* the total world probability), an expected value equal to the
\* probability-weighted count, which lies between min and max when the
\* probabilities sum to 1, and total.expected equal to the sum of the
\* per-type expected values.
C33_MarginalsConsistent ==
  (last.op = "getMarginals" /\ ~raised) =>
    /\ DOMAIN marginals.types = TypeSet(CardTypes)
    /\ \A cardType \in TypeSet(CardTypes) :
         LET m == marginals.types[cardType]
             counts == CountsOf(cardType)
             mass == [n \in counts |-> MassAt(cardType, n)]
         IN /\ counts # {} =>
                 /\ m.min \in counts /\ \A n \in counts : m.min <= n
                 /\ m.max \in counts /\ \A n \in counts : m.max >= n
            /\ DOMAIN m.distribution = counts
            /\ \A n \in counts : m.distribution[n] = mass[n]
            /\ RSumOver(counts, m.distribution) = SumProb(worlds)
            /\ m.expected = RSumOver(counts, [n \in counts |-> RScale(n, mass[n])])
            /\ SumProb(worlds) = One =>
                 /\ RGeq(m.expected, <<m.min, 1>>)
                 /\ RGeq(<<m.max, 1>>, m.expected)
    /\ marginals.total.expected =
         RSumOver(TypeSet(CardTypes) \X {0},
                  [x \in TypeSet(CardTypes) \X {0} |-> marginals.types[x[1]].expected])

\* Marginals over several worlds that disagree on a card type: the
\* distribution has two counts, one of them carried by more than one
\* world, and the expected value lies strictly between min and max.
C33_Witness ==
  /\ last.op = "getMarginals"
  /\ ~raised
  /\ Len(worlds) >= 3
  /\ \E cardType \in TypeSet(CardTypes) :
       LET m == marginals.types[cardType]
       IN /\ m.min < m.max
          /\ RLess(<<m.min, 1>>, m.expected)
          /\ RLess(m.expected, <<m.max, 1>>)
          /\ \E n \in DOMAIN m.distribution :
               /\ m.distribution[n] = MassAt(cardType, n)
               /\ \A i \in 1..Len(worlds) : RLess(worlds[i].probability, m.distribution[n])

\* The last call was one of the operations that apply one change to every
\* world: every handler but the steals, and the two constraint setters.
NonBranchingCall ==
  \/ last.op \in {"build", "bankTrade", "playerTrade", "discard", "monopoly", "wedding",
                  "production", "yearOfPlenty", "setCardCount", "setBank"}
  \/ last.op = "spy" /\ last.args[3] # NullCard

\* C34: build, bank trade, player trade, discard, monopoly, wedding, spy
\* with a stated card, production, year of plenty, setCardCount and setBank
\* never leave more worlds in the collection than there were before the call.
C34_OnlyStealBranches == NonBranchingCall => Len(worlds) <= Len(prev)

\* C35: every world of the collection has a probability of at least
\* pruneThreshold, after every call.
C35_AboveThreshold ==
  Proper(worlds) =>
    \A i \in 1..Len(worlds) : RGeq(worlds[i].probability, pruneThreshold)

\* A steal after which some merged children were below the threshold and
\* were dropped, while the world that stayed is at or above it.
C35_Witness ==
  /\ last.op = "steal"
  /\ ~raised
  /\ Proper(prev)
  /\ \E i \in 1..Len(MergedChildren) : RLess(MergedChildren[i].probability, pruneThreshold)
  /\ RLess(DefaultPruneThreshold, pruneThreshold)
  /\ Len(worlds) >= 1
  /\ \A i \in 1..Len(worlds) : RGeq(worlds[i].probability, pruneThreshold)

\* C36: in a tracker constructed for the extended variant every hand of
\* every world has one component per card type of the extended set, so a
\* commodity handed out by a production is held by its receiver in every
\* world afterwards.
C36_HandWidth ==
  (isCK /\ Proper(worlds)) =>
    /\ \A i \in 1..Len(worlds) : \A p \in 1..Len(worlds[i].hands) :
         Len(worlds[i].hands[p]) = Len(ALL_CARD_TYPES)
    /\ (last.op = "production" /\ ~raised) =>
         \A i \in 1..Len(worlds) : \A k \in 1..Len(last.args) :
           \A c \in 1..Len(last.args[k][2]) :
             LET card == last.args[k][2][c]
             IN card[2] > 0 => HandGet(worlds[i].hands[last.args[k][1]], card[1]) >= card[2]

\* The events that change the tracked bank.
BankEvents == {"production", "build", "bankTrade", "discard", "yearOfPlenty"}

\* The calls so far are some calls, a setBank, and then only events that
\* change the bank.
BankThenEvents ==
  /\ logging
  /\ \E k \in 1..Len(history) :
       /\ history[k].op = "setBank"
       /\ \A t \in DOMAIN history[k].args[1] :
            history[k].args[1][t] >= 0 /\ history[k].args[1][t] <= TOTAL_PER_RESOURCE
       /\ \A j \in (k + 1)..Len(history) : history[j].op \in BankEvents

\* C37: once setBank was called with values in 0..19, after any later
\* sequence of production, build, bank trade, discard and year-of-plenty
\* events every tracked bank entry is between 0 and 19.
C37_BankWithinSupply ==
  (BankThenEvents /\ ~IsNull(bank)) =>
    \A t \in DOMAIN bank : bank[t] >= 0 /\ bank[t] <= TOTAL_PER_RESOURCE

\* The four queries, and the calls made so far without them.
QueryOps == {"getMarginals", "getMostLikelyHand", "getConfidence", "getDebugInfo"}
WithoutQueries == SelectSeq(history, LAMBDA c : c.op \notin QueryOps)

\* What a tracker holds apart from the outcome of its last call.
Held(st) ==
  [worlds |-> st.worlds, bank |-> st.bank, cardCounts |-> st.cardCounts,
   turnNumber |-> st.turnNumber]

\* C38: a query leaves the worlds (order, hands, probabilities), the bank,
\* the known card counts, the event log and the turn counter as they were,
\* whether or not it raises; and whenever queries were made among the
\* calls, a tracker fed the same calls without the queries holds the same
\* worlds, bank, card counts and turn counter.
C38_QueriesReadOnly ==
  [][/\ last'.op \in QueryOps =>
          UNCHANGED <<worlds, bank, cardCounts, eventLog, turnNumber>>
     /\ (logging /\ \E k \in 1..Len(history') : history'[k].op \in QueryOps) =>
          [worlds |-> worlds', bank |-> bank', cardCounts |-> cardCounts',
           turnNumber |-> turnNumber'] =
            Held(RunCalls(Fresh, SelectSeq(history', LAMBDA c : c.op \notin QueryOps)))]_vars

\* A query made between a production and a steal that branched.
C38_Witness ==
  /\ logging
  /\ Len(history) = 3
  /\ history[1].op = "production"
  /\ history[2].op \in QueryOps
  /\ history[3].op = "steal"
  /\ Len(worlds) >= 3
  /\ Len(eventLog) = 2
  /\ Held(Current) = Held(RunCalls(Fresh, WithoutQueries))

====
